---- MODULE Spec2Model ----
(***************************************************************************)
(* worldclock: one run of main() in src/main.rs.                           *)
(*                                                                         *)
(* The run resolves the config path, reads the file, deserializes it into  *)
(* Config, substitutes the default clock, captures Utc::now() and calls    *)
(* print_clocks, which adds one row per clock and prints the table.        *)
(*                                                                         *)
(* Option<T> is modelled as a sequence of length at most one: None is <<>> *)
(* and Some(x) is <<x>>.  A path is the sequence of its components.  The   *)
(* text of a time cell is the sequence of its characters.                  *)
(***************************************************************************)
EXTENDS Integers, Sequences, FiniteSets, TLC

VARIABLES
    pc,             \* position in main / print_clocks
    args_config,    \* Args.config : Option<PathBuf>
    env_config_dir, \* what dirs::config_dir() returns on this host
    host_tz,        \* the zone chrono's Local resolves to on this host
    dir_calls,      \* number of calls of dirs::config_dir()
    config_path,    \* Option<PathBuf>, the resolved path
    config_text,    \* Option<text>, the content read from config_path
    clocks,         \* config.clocks : Vec<Clock>
    push_count,     \* number of config.clocks.push(Clock::default())
    time,           \* Option<DateTime<Utc>>, seconds since the epoch
    now_calls,      \* number of calls of Utc::now()
    idx,            \* print_clocks: 1-based position of the for loop (0 outside)
    table,          \* print_clocks: rows added to the table so far
    stdout,         \* lines written to standard output
    print_calls,    \* number of calls of table.printstd()
    err,            \* Option<Error> returned by main
    exit_code       \* Option<Int>, the exit code of the process

vars == <<pc, args_config, env_config_dir, host_tz, dir_calls, config_path,
          config_text, clocks, push_count, time, now_calls, idx, table,
          stdout, print_calls, err, exit_code>>

----------------------------------------------------------------------------
(* Bounds and input sets *)

MaxClocks == 3

None == <<>>
Some(x) == <<x>>
IsSome(o) == o # <<>>
IsNone(o) == o = <<>>
Unwrap(o) == o[1]

Names == {"", "Costa Rica"}
TzStrings == {"Europe/Berlin", "America/Costa_Rica", "Not/AZone"}

\* 2024-01-01T00:05:09Z, 2024-01-01T12:00:00Z, 2024-07-01T23:59:59Z
Instants == {1704067509, 1704110400, 1719878399}

OverridePaths == {<<"tmp", "wc.toml">>}
ConfigDirs == {<<"home", "u", ".config">>}

\* one [[clocks]] table of the TOML text
TomlClocks == [name : {None} \cup {Some(n) : n \in Names},
               tz   : {None} \cup {Some(s) : s \in TzStrings}]

SeqUpTo(S, n) == UNION {[1..k -> S] : k \in 0..n}

\* the config text, by its TOML content: wellformed is FALSE for a text that
\* toml::from_str rejects for its syntax or the type of a value; has_clocks
\* is FALSE when no key named "clocks" is present (other keys are ignored)
ConfigTexts ==
    {[wellformed |-> FALSE, has_clocks |-> FALSE, clocks |-> <<>>],
     [wellformed |-> TRUE,  has_clocks |-> FALSE, clocks |-> <<>>]}
    \cup {[wellformed |-> TRUE, has_clocks |-> TRUE, clocks |-> cs] :
            cs \in SeqUpTo(TomlClocks, MaxClocks)}

----------------------------------------------------------------------------
(* Results and errors *)

Ok(v) == [ok |-> TRUE, val |-> v, err |-> None]
Err(e) == [ok |-> FALSE, val |-> None, err |-> Some(e)]

MkError(kind, path, value) == [kind |-> kind, path |-> path, value |-> value]

----------------------------------------------------------------------------
(* chrono_tz::Tz *)

TzVariants == {"UTC", "Europe__Berlin", "America__Costa_Rica", "Asia__Kolkata"}

\* Tz::name(), which Display (to_string) writes
TzName(tz) ==
    CASE tz = "UTC"                 -> "UTC"
      [] tz = "Europe__Berlin"      -> "Europe/Berlin"
      [] tz = "America__Costa_Rica" -> "America/Costa_Rica"
      [] tz = "Asia__Kolkata"       -> "Asia/Kolkata"

\* variant of from_str that maps an unknown identifier to UTC
FromStr_lenient(s) ==
    IF \E v \in TzVariants : TzName(v) = s
    THEN Ok(CHOOSE v \in TzVariants : TzName(v) = s)
    ELSE Ok("UTC")

\* <chrono_tz::Tz as FromStr>::from_str
FromStr(s) ==
    IF \E v \in TzVariants : TzName(v) = s
    THEN Ok(CHOOSE v \in TzVariants : TzName(v) = s)
    ELSE Err(MkError("InvalidTimeZone", None, Some(s)))

\* offset from UTC, in seconds, of zone tz at instant t
\* (Europe/Berlin: CEST from 2024-03-31T01:00:00Z to 2024-10-27T01:00:00Z)
UtcOffset(tz, t) ==
    CASE tz = "UTC"                 -> 0
      [] tz = "Europe__Berlin"      ->
            IF t >= 1711846800 /\ t < 1729990800 THEN 7200 ELSE 3600
      [] tz = "America__Costa_Rica" -> 0 - 21600
      [] tz = "Asia__Kolkata"       -> 19800

\* time.with_timezone(&tz).naive_local(): local seconds since the epoch
NaiveLocal(t, tz) == t + UtcOffset(tz, t)

----------------------------------------------------------------------------
(* Deserialization *)

\* <Tz as Deserialize>::deserialize
DeserializeTz(s) ==
    LET r == FromStr(s) IN
    IF r.ok THEN Ok(r.val) ELSE r

\* derived Deserialize of Clock: both fields are Option, absent gives None
DeserializeClock(t) ==
    IF IsNone(t.tz) THEN Ok([name |-> t.name, tz |-> None])
    ELSE LET r == DeserializeTz(Unwrap(t.tz)) IN
         IF r.ok THEN Ok([name |-> t.name, tz |-> Some(r.val)]) ELSE r

RECURSIVE DeserializeClocks(_)
DeserializeClocks(ts) ==
    IF ts = <<>> THEN Ok(<<>>)
    ELSE LET h == DeserializeClock(Head(ts)) IN
         IF ~h.ok THEN h
         ELSE LET r == DeserializeClocks(Tail(ts)) IN
              IF ~r.ok THEN r ELSE Ok(<<h.val>> \o r.val)

\* variant without #[serde(default)]: a missing key is a missing-field error
MissingClocks_required == Err(MkError("ConfigMalformed", None, None))

\* the value of Config.clocks when the key is absent: #[serde(default)]
MissingClocks == Ok(<<>>)

\* toml::from_str::<Config>
DeserializeConfig(text) ==
    IF ~text.wellformed THEN Err(MkError("ConfigMalformed", None, None))
    ELSE IF ~text.has_clocks THEN MissingClocks
    ELSE DeserializeClocks(text.clocks)

\* Clock::default()
DefaultClock == [name |-> None, tz |-> None]

----------------------------------------------------------------------------
(* print_clocks helpers *)

Digits == <<"0", "1", "2", "3", "4", "5", "6", "7", "8", "9">>

\* variant of the field format without zero padding
TwoDigits_nopad(n) ==
    IF n < 10 THEN <<Digits[n + 1]>>
    ELSE <<Digits[(n \div 10) + 1], Digits[(n % 10) + 1]>>

\* %H, %M, %S: two digits, zero padded
TwoDigits(n) == <<Digits[(n \div 10) + 1], Digits[(n % 10) + 1]>>

\* local_time.format("%H:%M:%S").to_string()
FormatHMS(local) ==
    LET sod == local % 86400 IN
    TwoDigits(sod \div 3600) \o <<":">> \o
    TwoDigits((sod % 3600) \div 60) \o <<":">> \o
    TwoDigits(sod % 60)

\* local_time of one clock
LocalTime(clock, t, host) ==
    IF IsSome(clock.tz) THEN NaiveLocal(t, Unwrap(clock.tz))
    ELSE NaiveLocal(t, host)

\* variant of tz_name that ignores the zone
FallbackName_local(clock) == "Local"

\* tz_name of one clock
FallbackName(clock) ==
    IF IsSome(clock.tz) THEN TzName(Unwrap(clock.tz)) ELSE "Local"

\* variant that treats an empty name as absent
UnwrapOr_truthy(o, d) == IF IsSome(o) /\ Unwrap(o) # "" THEN Unwrap(o) ELSE d

\* clock.name.as_ref().unwrap_or(&tz_name)
UnwrapOr(o, d) == IF IsSome(o) THEN Unwrap(o) ELSE d

\* the Row built for one clock
MkRow(clock, t, host) ==
    [label |-> UnwrapOr(clock.name, FallbackName(clock)),
     bold  |-> TRUE,
     time_text |-> FormatHMS(LocalTime(clock, t, host))]

\* variant of add_row that inserts the row at the front
AddRow_prepend(tbl, row) == <<row>> \o tbl

\* table.add_row
AddRow(tbl, row) == Append(tbl, row)

----------------------------------------------------------------------------
(* main *)

\* PathBuf::join
Join(dir, file) == Append(dir, file)

\* variant that reports the error and still exits with 0
Fail_exit0(e) ==
    /\ pc' = "failed"
    /\ err' = Some(e)
    /\ exit_code' = Some(0)

\* return Err(e) from main
Fail(e) ==
    /\ pc' = "failed"
    /\ err' = Some(e)
    /\ exit_code' = Some(1)

Init ==
    /\ pc = "resolve"
    /\ args_config \in {None} \cup {Some(p) : p \in OverridePaths}
    /\ env_config_dir \in {None} \cup {Some(d) : d \in ConfigDirs}
    /\ host_tz \in {"UTC", "Asia__Kolkata"}
    /\ dir_calls = 0
    /\ config_path = None
    /\ config_text = None
    /\ clocks = <<>>
    /\ push_count = 0
    /\ time = None
    /\ now_calls = 0
    /\ idx = 0
    /\ table = <<>>
    /\ stdout = <<>>
    /\ print_calls = 0
    /\ err = None
    /\ exit_code = None

\* variant that evaluates dirs::config_dir() before looking at args.config
ResolveConfigPath_eager ==
    /\ pc = "resolve"
    /\ dir_calls' = dir_calls + 1
    /\ IF IsNone(env_config_dir)
       THEN /\ Fail(MkError("ConfigDirUnresolvable", None, None))
            /\ UNCHANGED config_path
       ELSE /\ config_path' =
                  (IF IsSome(args_config) THEN args_config
                   ELSE Some(Join(Unwrap(env_config_dir), "worldclock.toml")))
            /\ pc' = "read"
            /\ UNCHANGED <<err, exit_code>>
    /\ UNCHANGED <<args_config, env_config_dir, host_tz, config_text, clocks,
                   push_count, time, now_calls, idx, table, stdout,
                   print_calls>>

\* let config_path = if let Some(config_path) = args.config { .. } else { .. }
ResolveConfigPath ==
    /\ pc = "resolve"
    /\ IF IsSome(args_config)
       THEN /\ config_path' = args_config
            /\ pc' = "read"
            /\ UNCHANGED <<dir_calls, err, exit_code>>
       ELSE /\ dir_calls' = dir_calls + 1
            /\ IF IsNone(env_config_dir)
               THEN /\ Fail(MkError("ConfigDirUnresolvable", None, None))
                    /\ UNCHANGED config_path
               ELSE /\ config_path' =
                          Some(Join(Unwrap(env_config_dir), "worldclock.toml"))
                    /\ pc' = "read"
                    /\ UNCHANGED <<err, exit_code>>
    /\ UNCHANGED <<args_config, env_config_dir, host_tz, config_text, clocks,
                   push_count, time, now_calls, idx, table, stdout,
                   print_calls>>

\* std::fs::read_to_string(&config_path).map_err(..)?
ReadConfig ==
    /\ pc = "read"
    /\ \/ /\ Fail(MkError("ConfigUnreadable", config_path, None))
          /\ UNCHANGED config_text
       \/ \E text \in ConfigTexts :
            /\ config_text' = Some(text)
            /\ pc' = "deserialize"
            /\ UNCHANGED <<err, exit_code>>
    /\ UNCHANGED <<args_config, env_config_dir, host_tz, dir_calls,
                   config_path, clocks, push_count, time, now_calls, idx,
                   table, stdout, print_calls>>

\* let mut config: Config = toml::from_str(&config_text)?;
Deserialize ==
    /\ pc = "deserialize"
    /\ LET r == DeserializeConfig(Unwrap(config_text)) IN
       IF r.ok
       THEN /\ clocks' = r.val
            /\ pc' = "default"
            /\ UNCHANGED <<err, exit_code>>
       ELSE /\ Fail(Unwrap(r.err))
            /\ UNCHANGED clocks
    /\ UNCHANGED <<args_config, env_config_dir, host_tz, dir_calls,
                   config_path, config_text, push_count, time, now_calls,
                   idx, table, stdout, print_calls>>

\* variant that never pushes the default clock
SubstituteDefault_skip ==
    /\ pc = "default"
    /\ pc' = "now"
    /\ UNCHANGED <<args_config, env_config_dir, host_tz, dir_calls,
                   config_path, config_text, clocks, push_count, time,
                   now_calls, idx, table, stdout, print_calls, err,
                   exit_code>>

\* if config.clocks.is_empty() { config.clocks.push(Clock::default()); }
SubstituteDefault ==
    /\ pc = "default"
    /\ IF clocks = <<>>
       THEN /\ clocks' = Append(clocks, DefaultClock)
            /\ push_count' = push_count + 1
       ELSE UNCHANGED <<clocks, push_count>>
    /\ pc' = "now"
    /\ UNCHANGED <<args_config, env_config_dir, host_tz, dir_calls,
                   config_path, config_text, time, now_calls, idx, table,
                   stdout, print_calls, err, exit_code>>

\* let time = Utc::now();
Now ==
    /\ pc = "now"
    /\ \E t \in Instants : time' = Some(t)
    /\ now_calls' = now_calls + 1
    /\ pc' = "print_clocks"
    /\ UNCHANGED <<args_config, env_config_dir, host_tz, dir_calls,
                   config_path, config_text, clocks, push_count, idx, table,
                   stdout, print_calls, err, exit_code>>

\* print_clocks(&config.clocks, time): Table::new(), set_format
PrintClocksEnter ==
    /\ pc = "print_clocks"
    /\ table' = <<>>
    /\ idx' = 1
    /\ pc' = "for"
    /\ UNCHANGED <<args_config, env_config_dir, host_tz, dir_calls,
                   config_path, config_text, clocks, push_count, time,
                   now_calls, stdout, print_calls, err, exit_code>>

\* variant that calls Utc::now() again in every iteration
PrintClocksRow_now ==
    /\ pc = "for"
    /\ idx <= Len(clocks)
    /\ \E t \in Instants :
         /\ time' = Some(t)
         /\ table' = AddRow(table, MkRow(clocks[idx], t, host_tz))
    /\ now_calls' = now_calls + 1
    /\ idx' = idx + 1
    /\ UNCHANGED <<pc, args_config, env_config_dir, host_tz, dir_calls,
                   config_path, config_text, clocks, push_count, stdout,
                   print_calls, err, exit_code>>

\* one iteration of: for clock in clocks { .. table.add_row(..) }
PrintClocksRow ==
    /\ pc = "for"
    /\ idx <= Len(clocks)
    /\ table' = AddRow(table, MkRow(clocks[idx], Unwrap(time), host_tz))
    /\ idx' = idx + 1
    /\ UNCHANGED <<pc, args_config, env_config_dir, host_tz, dir_calls,
                   config_path, config_text, clocks, push_count, time,
                   now_calls, stdout, print_calls, err, exit_code>>

\* table.printstd()
PrintStd ==
    /\ pc = "for"
    /\ idx > Len(clocks)
    /\ stdout' = stdout \o table
    /\ print_calls' = print_calls + 1
    /\ pc' = "return"
    /\ UNCHANGED <<args_config, env_config_dir, host_tz, dir_calls,
                   config_path, config_text, clocks, push_count, time,
                   now_calls, idx, table, err, exit_code>>

\* Ok(())
ReturnOk ==
    /\ pc = "return"
    /\ exit_code' = Some(0)
    /\ pc' = "done"
    /\ UNCHANGED <<args_config, env_config_dir, host_tz, dir_calls,
                   config_path, config_text, clocks, push_count, time,
                   now_calls, idx, table, stdout, print_calls, err>>

Next ==
    \/ ResolveConfigPath
    \/ ReadConfig
    \/ Deserialize
    \/ SubstituteDefault
    \/ Now
    \/ PrintClocksEnter
    \/ PrintClocksRow
    \/ PrintStd
    \/ ReturnOk

Spec == Init /\ [][Next]_vars

----------------------------------------------------------------------------
(* Vocabulary of the properties: the configuration as written by the user *)

ValidIds == {"UTC", "Europe/Berlin", "America/Costa_Rica", "Asia/Kolkata"}

Started == IsSome(config_text)
Text == Unwrap(config_text)

HasInvalidTz(text) ==
    /\ text.wellformed
    /\ \E i \in 1..Len(text.clocks) :
         /\ IsSome(text.clocks[i].tz)
         /\ Unwrap(text.clocks[i].tz) \notin ValidIds

EmptyConfig == Started /\ Text.wellformed /\ Text.clocks = <<>>

\* the entries the table is expected to show, in configuration order
Entries ==
    IF Text.clocks = <<>> THEN <<[name |-> None, tz |-> None]>>
    ELSE Text.clocks

ZoneOfId(s) == CHOOSE v \in TzVariants : TzName(v) = s

EntryLocal(e) ==
    IF IsSome(e.tz)
    THEN Unwrap(time) + UtcOffset(ZoneOfId(Unwrap(e.tz)), Unwrap(time))
    ELSE Unwrap(time) + UtcOffset(host_tz, Unwrap(time))

EntryLabel(e) ==
    IF IsSome(e.name) THEN Unwrap(e.name)
    ELSE IF IsSome(e.tz) THEN Unwrap(e.tz) ELSE "Local"

DigitChars == {"0", "1", "2", "3", "4", "5", "6", "7", "8", "9"}
DigitVal(c) == CHOOSE d \in 0..9 : Digits[d + 1] = c
Field(tt, k) == 10 * DigitVal(tt[k]) + DigitVal(tt[k + 1])

WellFormedHMS(tt) ==
    /\ Len(tt) = 8
    /\ tt[3] = ":" /\ tt[6] = ":"
    /\ \A k \in {1, 2, 4, 5, 7, 8} : tt[k] \in DigitChars

\* tt is HH:MM:SS and reads as the time of day of the local timestamp
ShowsWallClock(tt, local) ==
    /\ WellFormedHMS(tt)
    /\ Field(tt, 1) \in 0..23
    /\ Field(tt, 4) \in 0..59
    /\ Field(tt, 7) \in 0..59
    /\ (local - (Field(tt, 1) * 3600 + Field(tt, 4) * 60 + Field(tt, 7)))
          % 86400 = 0

Rendering == pc \in {"for", "return", "done"}
AfterDefault == pc \in {"now", "print_clocks", "for", "return", "done"}

----------------------------------------------------------------------------
(* Properties *)

\* C1: a clocks list with an unknown tz string, at any position, makes the
\* run fail at deserialization with an invalid-time-zone error; print_clocks
\* is never entered, no row is computed and nothing is written to stdout.
C1_InvalidZoneRejected ==
    (Started /\ HasInvalidTz(Text)) =>
        /\ pc \in {"deserialize", "failed"}
        /\ pc = "failed" =>
             /\ Unwrap(err).kind = "InvalidTimeZone"
             /\ IsSome(Unwrap(err).value)
             /\ Unwrap(Unwrap(err).value) \notin ValidIds
             /\ exit_code = Some(1)
        /\ idx = 0 /\ table = <<>> /\ stdout = <<>>
        /\ print_calls = 0 /\ now_calls = 0

C1_Witness ==
    /\ pc = "failed"
    /\ Started
    /\ Len(Text.clocks) = 3
    /\ Text.clocks[1].tz = Some("Europe/Berlin")
    /\ Text.clocks[2].tz = Some("America/Costa_Rica")
    /\ Text.clocks[3].tz = Some("Not/AZone")
    /\ Unwrap(err).kind = "InvalidTimeZone"

\* C2: an empty clocks sequence gets exactly one default entry, pushed once;
\* print_clocks never sees an empty sequence, and an empty config prints one
\* row labelled "Local" with the host-local time of the captured instant.
C2_DefaultSubstitution ==
    /\ push_count <= 1
    /\ AfterDefault =>
         /\ Len(clocks) >= 1
         /\ EmptyConfig <=> push_count = 1
         /\ EmptyConfig => clocks = <<[name |-> None, tz |-> None]>>
         /\ ~EmptyConfig => Len(clocks) = Len(Text.clocks)
    /\ (pc = "done" /\ EmptyConfig) =>
         /\ Len(stdout) = 1
         /\ stdout[1].label = "Local"
         /\ ShowsWallClock(stdout[1].time_text,
               Unwrap(time) + UtcOffset(host_tz, Unwrap(time)))

C2_Witness ==
    /\ pc = "done"
    /\ EmptyConfig
    /\ Text.has_clocks
    /\ push_count = 1
    /\ Len(stdout) = 1

\* C3: print_clocks adds one row per entry and the i-th row is computed from
\* the i-th entry of the configuration: no reordering, dropping, duplication.
C3_RowOrder ==
    Rendering =>
        /\ pc = "for" => Len(table) = idx - 1
        /\ Len(table) <= Len(Entries)
        /\ \A i \in 1..Len(table) :
             /\ table[i].label = EntryLabel(Entries[i])
             /\ ShowsWallClock(table[i].time_text, EntryLocal(Entries[i]))
        /\ pc \in {"return", "done"} =>
             /\ Len(table) = Len(Entries)
             /\ stdout = table

C3_Witness ==
    /\ pc = "done"
    /\ Len(Text.clocks) = 3
    /\ Len(stdout) = 3
    /\ stdout[1].label = "Local"
    /\ stdout[2].label = "Europe/Berlin"
    /\ stdout[3].label = "Costa Rica"
    /\ stdout[2].time_text # stdout[3].time_text

\* C4: an entry whose name is present is labelled with exactly that name,
\* with or without tz; an explicitly empty name "" is shown as it is.
C4_NamePrecedence ==
    Rendering =>
        \A i \in 1..Len(table) :
            IsSome(Entries[i].name) => table[i].label = Unwrap(Entries[i].name)

C4_Witness ==
    /\ pc = "done"
    /\ Len(stdout) = 2
    /\ Text.clocks[1] = [name |-> Some(""), tz |-> Some("Europe/Berlin")]
    /\ Text.clocks[2] = [name |-> Some(""), tz |-> None]
    /\ stdout[1].label = ""
    /\ stdout[2].label = ""

\* C5: an entry whose name is absent is labelled with the string form of its
\* time zone when tz is present and with "Local" when tz is absent.
C5_FallbackLabel ==
    Rendering =>
        \A i \in 1..Len(table) :
            IsNone(Entries[i].name) =>
                table[i].label =
                    (IF IsSome(Entries[i].tz) THEN Unwrap(Entries[i].tz)
                     ELSE "Local")

C5_Witness ==
    /\ pc = "done"
    /\ Len(stdout) = 2
    /\ Text.clocks[1] = [name |-> None, tz |-> Some("Europe/Berlin")]
    /\ Text.clocks[2] = [name |-> None, tz |-> None]
    /\ stdout[1].label = "Europe/Berlin"
    /\ stdout[2].label = "Local"

\* C6: the instant is captured exactly once, after the config is parsed and
\* before rendering, and every row is computed from it: two entries with the
\* same effective zone show the same time text, whatever their names.
C6_SameInstant ==
    /\ now_calls <= 1
    /\ IsSome(time) <=> now_calls = 1
    /\ now_calls = 1 <=> pc \in {"print_clocks", "for", "return", "done"}
    /\ now_calls = 1 => (Started /\ Text.wellformed /\ ~HasInvalidTz(Text))
    /\ Rendering =>
         /\ \A i \in 1..Len(table) :
              ShowsWallClock(table[i].time_text, EntryLocal(Entries[i]))
         /\ \A i, j \in 1..Len(table) :
              Entries[i].tz = Entries[j].tz =>
                  table[i].time_text = table[j].time_text

C6_Witness ==
    /\ pc = "done"
    /\ Len(stdout) = 3
    /\ Text.clocks[1] = [name |-> None, tz |-> Some("America/Costa_Rica")]
    /\ Text.clocks[2] = [name |-> Some(""), tz |-> None]
    /\ Text.clocks[3] = [name |-> Some("Costa Rica"),
                         tz |-> Some("America/Costa_Rica")]
    /\ stdout[1].time_text = stdout[3].time_text
    /\ stdout[1].time_text # stdout[2].time_text

\* C7: every time cell is the wall-clock time of the captured instant in the
\* entry's effective zone, written HH:MM:SS: two zero-padded digits per
\* field, hour 00..23, minute and second 00..59, and nothing else.
C7_TimeFormat ==
    \A i \in 1..Len(table) :
        LET tt == table[i].time_text IN
        /\ Len(tt) = 8
        /\ tt[3] = ":" /\ tt[6] = ":"
        /\ \A k \in {1, 2, 4, 5, 7, 8} : tt[k] \in DigitChars
        /\ Field(tt, 1) < 24 /\ Field(tt, 4) < 60 /\ Field(tt, 7) < 60
        /\ Field(tt, 1) * 3600 + Field(tt, 4) * 60 + Field(tt, 7)
             = EntryLocal(Entries[i]) % 86400

C7_Witness ==
    /\ pc = "done"
    /\ Len(stdout) = 2
    /\ Text.clocks[1].tz = Some("Europe/Berlin")
    /\ Text.clocks[2].tz = Some("America/Costa_Rica")
    /\ stdout[1].time_text = <<"0", "1", ":", "0", "5", ":", "0", "9">>
    /\ stdout[2].time_text = <<"1", "8", ":", "0", "5", ":", "0", "9">>

ErrorKinds == {"ConfigDirUnresolvable", "ConfigUnreadable", "ConfigMalformed",
               "InvalidTimeZone"}

C9_Outcome ==
    /\ pc = "failed" =>
         /\ exit_code = Some(1)
         /\ IsSome(err)
         /\ Unwrap(err).kind \in ErrorKinds
         /\ stdout = <<>> /\ print_calls = 0
    /\ IsSome(err) <=> pc = "failed"
    /\ IsSome(exit_code) <=> pc \in {"failed", "done"}
    /\ print_calls <= 1
    /\ (print_calls = 1 \/ stdout # <<>>) =>
         /\ IsSome(config_path)
         /\ Started /\ Text.wellformed /\ ~HasInvalidTz(Text)
         /\ IsNone(err)
    /\ pc = "done" =>
         /\ exit_code = Some(0)
         /\ print_calls = 1
         /\ stdout # <<>>

\* C9: every failure is terminal: the run ends with a non-zero exit and an
\* error and takes no further step; the table is written only when path
\* resolution, read and deserialization succeeded, then once, with exit 0.
C9_FailureTerminal ==
    /\ []C9_Outcome
    /\ [][pc # "failed" /\ pc # "done"]_vars

C9_Witness ==
    /\ pc = "failed"
    /\ Unwrap(err).kind = "ConfigMalformed"
    /\ exit_code = Some(1)
    /\ stdout = <<>>

\* C10: the config path is the override when one is given and otherwise the
\* config directory joined with "worldclock.toml"; the directory is consulted
\* only without an override, and a read failure reports the path used.
C10_ConfigPath ==
    /\ IsSome(args_config) =>
         /\ dir_calls = 0
         /\ pc # "resolve" => config_path = args_config
         /\ IsSome(err) => Unwrap(err).kind # "ConfigDirUnresolvable"
    /\ IsNone(args_config) =>
         /\ dir_calls = (IF pc = "resolve" THEN 0 ELSE 1)
         /\ IsSome(config_path) =>
              /\ IsSome(env_config_dir)
              /\ config_path =
                   Some(Unwrap(env_config_dir) \o <<"worldclock.toml">>)
         /\ (pc # "resolve" /\ IsNone(config_path)) =>
              /\ pc = "failed"
              /\ Unwrap(err).kind = "ConfigDirUnresolvable"
              /\ IsNone(env_config_dir)
    /\ (IsSome(err) /\ Unwrap(err).kind = "ConfigUnreadable") =>
         /\ IsSome(config_path)
         /\ Unwrap(err).path = config_path

C10_Witness ==
    /\ pc = "failed"
    /\ IsSome(args_config)
    /\ IsNone(env_config_dir)
    /\ Unwrap(err).kind = "ConfigUnreadable"
    /\ Unwrap(err).path = args_config

====
